---- MODULE Spec2Model ----
(***************************************************************************)
(* Depthmap (src/src/common/depthmap_toolkit/depthmap.py): construction    *)
(* from a raw buffer or a pre-built array, smoothing, floor detection,     *)
(* the seed/flood-fill object detection and the choice of the child.       *)
(*                                                                         *)
(* Numbers.  The code computes in floating point; the model computes the   *)
(* same quantities exactly, in integers:                                   *)
(*   - a depth is an integer number of depth units of 0.05 m, so the       *)
(*     code's 0.1 m thresholds are 2 units;                                *)
(*   - depthmap_arr_smooth holds 5 times the smoothed depth (the sum of    *)
(*     the five filter taps, each of weight 1/5);                          *)
(*   - a 3D point is held multiplied by PointScale = 5 * fx2 * fy2;        *)
(*   - an intrinsic is held in halves (2 stands for 1.0, 1 for 0.5).       *)
(* Arrays of shape (width, height) are functions on Grid(width, height),   *)
(* indexed <<x, y>> from 0 as in the code.                                 *)
(***************************************************************************)
EXTENDS Integers, Sequences, FiniteSets, TLC

VARIABLES
    pc,                  \* where the modelled call stands
    header,              \* create_from_zip: the header line of the capture, or None
    width, height,       \* self.width, self.height
    data,                \* constructor argument `data`: <<bytes>> or None
    arr_arg,             \* constructor argument `depthmap_arr` or None
    depth_scale,         \* self.depth_scale (depth units per raw unit)
    max_confidence,      \* self.max_confidence
    device_pose,         \* self.device_pose (list of 16) or None
    depthmap_arr,        \* self.depthmap_arr
    depthmap_arr_smooth, \* self.depthmap_arr_smooth (times 5)
    confidence_arr,      \* self.confidence_arr: <<byte, max_confidence>> per pixel
    floor,               \* argument of detect_objects / segment_child
    floor_mask,          \* the mask detect_floor returned
    mask,                \* detect_objects' mask
    x, y,                \* detect_objects' loop variables
    stack,               \* detect_objects' stack of pixels
    aabb,                \* detect_objects' running bounding box
    current_id,          \* detect_objects' id counter
    segments,            \* detect_objects' list of Segment(id, aabb)
    fill_ids,            \* history: the id each started fill labels with
    child_mask,          \* the mask segment_child returns
    selection            \* get_floor_level's `cond`: the pixels it selects

vars == <<pc, header, width, height, data, arr_arg, depth_scale, max_confidence,
          device_pose, depthmap_arr, depthmap_arr_smooth, confidence_arr,
          floor, floor_mask, mask, x, y, stack, aabb, current_id, segments,
          fill_ids, child_mask, selection>>

ctor_vars == <<header, width, height, data, arr_arg, depth_scale, max_confidence,
               device_pose>>
obj_vars == <<depthmap_arr, depthmap_arr_smooth, confidence_arr>>
fill_vars == <<floor, floor_mask, mask, x, y, stack, aabb, current_id,
               segments, fill_ids, child_mask, selection>>

\* Python's None; an optional bytes value b is held as <<b>>
None == <<>>

\* constants.py (not among the sources): the mask sentinels
MASK_FLOOR == 1
MASK_CHILD == 2
MASK_INVALID == 3

\* depthmap_utils.py (not among the sources): the identity pose
IDENTITY_MATRIX_4D == <<1, 0, 0, 0,  0, 1, 0, 0,  0, 0, 1, 0,  0, 0, 0, 1>>

Abs(n) == IF n < 0 THEN -n ELSE n
Min(a, b) == IF a < b THEN a ELSE b
Max(a, b) == IF a > b THEN a ELSE b

Grid(w, h) == (0 .. w - 1) \X (0 .. h - 1)

(***************************************************************************)
(* Python indexing of an axis of length n: -n .. n-1 are valid, a negative *)
(* index counts from the end, anything else raises IndexError.             *)
(***************************************************************************)
IndexOk(i, n) == -n <= i /\ i < n
PyIndex(i, n) == IF i < 0 THEN i + n ELSE i
PixelOk(p, w, h) == IndexOk(p[1], w) /\ IndexOk(p[2], h)
PyPixel(p, w, h) == <<PyIndex(p[1], w), PyIndex(p[2], h)>>

(***************************************************************************)
(* smoothen_depthmap_array.  ndimage.convolve's default boundary mode is   *)
(* 'reflect': the index -1 reads 0 and the index n reads n-1.  The zero    *)
(* mask looks at the pixel and at its neighbours inside the array only.    *)
(***************************************************************************)
conv_filter == {<<0, 0>>, <<-1, 0>>, <<1, 0>>, <<0, -1>>, <<0, 1>>}

\* (mutation: mode 'mirror', which reflects about the centre of the edge pixel)
Reflect_Mirror(i, n) == IF i < 0 THEN -i ELSE IF i >= n THEN 2 * n - 2 - i ELSE i
Reflect(i, n) == IF i < 0 THEN -i - 1 ELSE IF i >= n THEN 2 * n - 1 - i ELSE i

RECURSIVE SumOver(_, _)
SumOver(S, f) ==
    IF S = {} THEN 0
    ELSE LET e == CHOOSE e \in S : TRUE IN f[e] + SumOver(S \ {e}, f)

Convolve(arr, w, h, p) ==
    SumOver(conv_filter,
            [d \in conv_filter |->
                arr[<<Reflect(p[1] + d[1], w), Reflect(p[2] + d[2], h)>>]])

\* lines 44-53: the pixel itself and its four neighbours inside the array
\* (mutation: only the pixel itself)
SmoothMask_CenterOnly(arr, w, h, p) == arr[p] = 0
SmoothMask(arr, w, h, p) ==
    \E d \in conv_filter :
        LET q == <<p[1] + d[1], p[2] + d[2]>>
        IN  q \in Grid(w, h) /\ arr[q] = 0

smoothen_depthmap_array(arr, w, h) ==
    [p \in Grid(w, h) |->
        IF SmoothMask(arr, w, h, p) THEN 0 ELSE Convolve(arr, w, h, p)]

(***************************************************************************)
(* Camera intrinsics of the depth sensor (self.intrinsics[self.sensor]),   *)
(* in halves: [1, 1, 0.5, 0.5].  fx2 = 2*fx, cx2 = 2*cx, and so on.        *)
(***************************************************************************)
intrinsics == <<2, 2, 1, 1>>
fx2(w) == intrinsics[1] * w
fy2(h) == intrinsics[2] * h
cx2(w) == intrinsics[3] * w
cy2(h) == intrinsics[4] * h

PointScale(w, h) == Cardinality(conv_filter) * fx2(w) * fy2(h)

(***************************************************************************)
(* convert_2d_to_3d_oriented(should_smooth=True) at one pixel, times       *)
(* PointScale: tx = depth*(x-cx)/fx, ty = depth*(y-cy)/fy, the point       *)
(* (-tx, ty, depth, 1) is multiplied by device_pose_arr (the transpose of  *)
(* the reshaped device_pose list), x and y are divided by |w|, and y is    *)
(* negated.                                                                *)
(***************************************************************************)
Homogeneous(smooth, w, h, p) ==
    <<-(smooth[p] * (2 * p[1] - cx2(w)) * fy2(h)),
      smooth[p] * (2 * p[2] - cy2(h)) * fx2(w),
      smooth[p] * fx2(w) * fy2(h),
      PointScale(w, h)>>

MatMul(pose, v) ==
    [i \in 1 .. 4 |->
        pose[i] * v[1] + pose[4 + i] * v[2] + pose[8 + i] * v[3] + pose[12 + i] * v[4]]

convert_2d_to_3d_oriented(smooth, pose, w, h, p) ==
    LET out == MatMul(pose, Homogeneous(smooth, w, h, p))
        ox == (out[1] * PointScale(w, h)) \div Abs(out[4])
        oy == (out[2] * PointScale(w, h)) \div Abs(out[4])
    IN  <<ox, -oy, out[3]>>

(***************************************************************************)
(* calculate_normalmap_array at one pixel: the cross product of the        *)
(* vectors to the x-1 and y-1 neighbours; the first column and row get a   *)
(* zero normal.  normalize divides by the L1 length, so                    *)
(* |normal[1]| > 0.5 is 2*|n_y| > |n_x|+|n_y|+|n_z| (a zero length gives   *)
(* NaN in the code, and the comparison is False).                          *)
(***************************************************************************)
Cross(u, v) ==
    <<u[2] * v[3] - u[3] * v[2], u[3] * v[1] - u[1] * v[3], u[1] * v[2] - u[2] * v[1]>>

calculate_normalmap_array(smooth, pose, w, h, p) ==
    IF p[1] < 1 \/ p[2] < 1 THEN <<0, 0, 0>>
    ELSE LET c  == convert_2d_to_3d_oriented(smooth, pose, w, h, p)
             xm == convert_2d_to_3d_oriented(smooth, pose, w, h, <<p[1] - 1, p[2]>>)
             ym == convert_2d_to_3d_oriented(smooth, pose, w, h, <<p[1], p[2] - 1>>)
         IN  Cross([i \in 1 .. 3 |-> c[i] - xm[i]], [i \in 1 .. 3 |-> c[i] - ym[i]])

NormalIsUp(smooth, pose, w, h, p) ==
    LET n == calculate_normalmap_array(smooth, pose, w, h, p)
    IN  2 * Abs(n[2]) > Abs(n[1]) + Abs(n[2]) + Abs(n[3])

\* 0.1 m, in depth units: the height test of detect_floor
FloorHeightTolerance == 2

IsNearFloor(smooth, pose, w, h, flr, p) ==
    convert_2d_to_3d_oriented(smooth, pose, w, h, p)[2] - flr * PointScale(w, h)
        < FloorHeightTolerance * PointScale(w, h)

detect_floor(smooth, pose, w, h, flr) ==
    [p \in Grid(w, h) |->
        IF NormalIsUp(smooth, pose, w, h, p) /\ IsNearFloor(smooth, pose, w, h, flr, p)
        THEN MASK_FLOOR
        ELSE IF smooth[p] = 0 THEN MASK_INVALID ELSE 0]

(***************************************************************************)
(* detect_objects.  The scan position <<x, y>> is the pixel the double     *)
(* loop examines next; ScanKey orders pixels as the loops do (x outer,     *)
(* y inner).                                                               *)
(***************************************************************************)
dirs == << <<-1, 0>>, <<1, 0>>, <<0, -1>>, <<0, 1>> >>

\* 0.1 m, in depth units: the continuity test of the flood fill
ContinuityTolerance == 2

ScanKey(p, h) == p[1] * h + p[2]
ScanPixel(k, h) == <<k \div h, k % h>>

Unlabeled(m, w, h, from) ==
    {k \in from .. (w * h - 1) : m[ScanPixel(k, h)] = 0}

FirstOf(S) == CHOOSE k \in S : \A j \in S : k <= j

(***************************************************************************)
(* line 359 compares doubles.  A depth of u units is the double nearest    *)
(* to u/20; for depths ContinuityTolerance apart the computed difference   *)
(* is the double 0.1 or one of its neighbours, and RoundsBelowTolerance    *)
(* lists the pairs {a, b} up to 24 units (1.2 m) for which it is below,    *)
(* e.g. 1.0 - 0.9 = 0.09999999999999998.  Any other difference is far      *)
(* from 0.1 and compares as the exact one does.                            *)
(***************************************************************************)
RoundsBelowTolerance ==
    { {1, 3}, {4, 6}, {5, 7}, {8, 10}, {10, 12}, {11, 13}, {12, 14}, {13, 15},
      {15, 17}, {16, 18}, {17, 19}, {18, 20}, {21, 23}, {22, 24} }

\* abs(depth_dir - depth_center) < 0.1
WithinTolerance(a, b) ==
    \/ Abs(a - b) < ContinuityTolerance
    \/ {a, b} \in RoundsBelowTolerance

\* lines 357-360: the neighbour in direction i joins the stack
IsConnected(arr, w, h, pixel, pixel_dir) ==
    LET depth_center == arr[PyPixel(pixel, w, h)]
        depth_dir == arr[PyPixel(pixel_dir, w, h)]
    IN  depth_dir > 0 /\ WithinTolerance(depth_dir, depth_center)

Neighbour(pixel, i) == <<pixel[1] + dirs[i][1], pixel[2] + dirs[i][2]>>

(***************************************************************************)
(* The for-loop over dirs for a popped pixel: the pixels appended, in      *)
(* order, and whether reading depthmap_arr at a neighbour raised           *)
(* IndexError (the loop stops there).                                      *)
(***************************************************************************)
RECURSIVE AddNeighbours(_, _, _, _, _, _)
AddNeighbours(arr, w, h, pixel, i, added) ==
    IF i > Len(dirs) THEN [raised |-> FALSE, added |-> added]
    ELSE LET pixel_dir == Neighbour(pixel, i)
         IN  IF ~PixelOk(pixel_dir, w, h)
             THEN [raised |-> TRUE, added |-> added]
             ELSE AddNeighbours(arr, w, h, pixel, i + 1,
                      IF IsConnected(arr, w, h, pixel, pixel_dir)
                      THEN Append(added, pixel_dir) ELSE added)

\* line 355: only a pixel that is still unlabeled has its neighbours added
Expand(arr, m, w, h, pixel) ==
    IF m[PyPixel(pixel, w, h)] = 0
    THEN AddNeighbours(arr, w, h, pixel, 1, <<>>)
    ELSE [raised |-> FALSE, added |-> <<>>]

\* lines 363-366
UpdateAabb(box, pixel) ==
    <<Min(pixel[1], box[1]), Min(pixel[2], box[2]),
      Max(pixel[1], box[3]), Max(pixel[2], box[4])>>

\* lines 372-373: object_size_pixels > self.width / 4
object_size_pixels(box) == Max(box[3] - box[1], box[4] - box[2])
\* (mutation: the size counted in pixels spanned)
IsValidSize_PixelSpan(box, w) == 4 * (object_size_pixels(box) + 1) > w
IsValidSize(box, w) == 4 * object_size_pixels(box) > w

\* line 375, outside the `if` of line 373
\* (mutation: the decrement moved inside the `if`)
AfterFillId_OnlyIfAccepted(id, accepted) == IF accepted THEN id - 1 ELSE id
AfterFillId(id, accepted) == id - 1

\* line 369: mask[pixel[0], pixel[1]] = current_id
\* (mutation: the label is not written)
Label_Skipped(m, w, h, pixel, id) == m
Label(m, w, h, pixel, id) == [m EXCEPT ![PyPixel(pixel, w, h)] = id]

Seed ==
    /\ pc = "scan"
    /\ Unlabeled(mask, width, height, ScanKey(<<x, y>>, height)) # {}
    /\ LET pixel == ScanPixel(FirstOf(Unlabeled(mask, width, height,
                                                ScanKey(<<x, y>>, height))), height)
       IN  /\ x' = pixel[1]
           /\ y' = pixel[2]
           /\ aabb' = <<pixel[1], pixel[2], pixel[1], pixel[2]>>
           /\ stack' = <<pixel>>
    /\ fill_ids' = Append(fill_ids, current_id)
    /\ pc' = "fill"
    /\ UNCHANGED <<ctor_vars, obj_vars, selection, floor, floor_mask, mask, current_id,
                   segments, child_mask>>

Pop ==
    /\ pc = "fill"
    /\ stack # <<>>
    /\ LET pixel == stack[Len(stack)]
           rest == SubSeq(stack, 1, Len(stack) - 1)
           ex == Expand(depthmap_arr, mask, width, height, pixel)
       IN  /\ stack' = rest \o ex.added
           /\ IF ex.raised
              THEN /\ pc' = "error"
                   /\ UNCHANGED <<aabb, mask>>
              ELSE /\ pc' = "fill"
                   /\ aabb' = UpdateAabb(aabb, pixel)
                   /\ mask' = Label(mask, width, height, pixel, current_id)
    /\ UNCHANGED <<ctor_vars, obj_vars, selection, floor, floor_mask, x, y, current_id,
                   segments, fill_ids, child_mask>>

EndFill ==
    /\ pc = "fill"
    /\ stack = <<>>
    /\ segments' = IF IsValidSize(aabb, width)
                   THEN Append(segments, [id |-> current_id, aabb |-> aabb])
                   ELSE segments
    /\ current_id' = AfterFillId(current_id, IsValidSize(aabb, width))
    /\ x' = ScanPixel(ScanKey(<<x, y>>, height) + 1, height)[1]
    /\ y' = ScanPixel(ScanKey(<<x, y>>, height) + 1, height)[2]
    /\ pc' = "scan"
    /\ UNCHANGED <<ctor_vars, obj_vars, selection, floor, floor_mask, mask, stack, aabb,
                   fill_ids, child_mask>>

Return ==
    /\ pc = "scan"
    /\ Unlabeled(mask, width, height, ScanKey(<<x, y>>, height)) = {}
    /\ x' = width
    /\ y' = 0
    /\ pc' = "returned"
    /\ UNCHANGED <<ctor_vars, obj_vars, selection, floor, floor_mask, mask, stack, aabb,
                   current_id, segments, fill_ids, child_mask>>

(***************************************************************************)
(* segment_child.  closest starts at sys.maxsize, which no sum of squared  *)
(* pixel distances reaches: the model holds closest as the set of the      *)
(* distances assigned to it so far, empty while it is sys.maxsize.         *)
(***************************************************************************)
Distance(segment, w, h) ==
    LET a == segment.aabb[1] - (w \div 2)
        b == segment.aabb[2] - (h \div 2)
        c == segment.aabb[3] - (w \div 2)
        d == segment.aabb[4] - (h \div 2)
    IN  a * a + b * b + c * c + d * d

\* line 303: closest > distance
\* (mutation: >= in place of >)
IsCloser_OrEqual(closest, distance) == \A c \in closest : c >= distance
IsCloser(closest, distance) == \A c \in closest : c > distance

RECURSIVE SelectFocus(_, _, _, _, _, _)
SelectFocus(segs, w, h, i, closest, focus) ==
    IF i > Len(segs) THEN focus
    ELSE LET distance == Distance(segs[i], w, h)
         IN  IF IsCloser(closest, distance)
             THEN SelectFocus(segs, w, h, i + 1, {distance}, segs[i].id)
             ELSE SelectFocus(segs, w, h, i + 1, closest, focus)

Focus(segs, w, h) == SelectFocus(segs, w, h, 1, {}, -1)

\* line 307: np.where(mask == focus, MASK_CHILD, mask)
Relabel(m, focus) == [p \in DOMAIN m |-> IF m[p] = focus THEN MASK_CHILD ELSE m[p]]

SegmentChild ==
    /\ pc = "returned"
    /\ child_mask' = Relabel(mask, Focus(segments, width, height))
    /\ pc' = "child"
    /\ UNCHANGED <<ctor_vars, obj_vars, selection, floor, floor_mask, mask, x, y, stack,
                   aabb, current_id, segments, fill_ids>>

(***************************************************************************)
(* The captures the segmentation is run on: every depth array of a shape   *)
(* in Shapes that is BackgroundDepth everywhere but at up to MaxZeros      *)
(* pixels without a measurement (0) and up to MaxRaised pixels at one      *)
(* nearer level of DepthLevels, seen under each pose of Poses, against     *)
(* each floor estimate, and the 4x3 captures of BlockFrames.  19 is within *)
(* the continuity tolerance of the background depth 20, 14 is not, and 18  *)
(* is exactly the tolerance away.  No capture puts a floor test of         *)
(* detect_floor on its threshold, where the rounding of the doubles would  *)
(* decide.                                                                 *)
(***************************************************************************)
MaxZeros == 3
MaxRaised == 2
Shapes == {<<3, 3>>, <<4, 2>>}
DepthLevels == {14, 18, 19, 20}
BackgroundDepth == CHOOSE d \in DepthLevels : \A e \in DepthLevels : e <= d
FloorEstimates == {-20}
\* the camera looks straight down: world y is minus the depth
LOOK_DOWN_POSE == <<1, 0, 0, 0,  0, 0, -1, 0,  0, 1, 0, 0,  0, 0, 0, 1>>
Poses == {IDENTITY_MATRIX_4D, LOOK_DOWN_POSE}

SubsetsUpTo(S, n) == {T \in SUBSET S : Cardinality(T) <= n}

Frames(w, h) ==
    UNION {UNION {
        {[p \in Grid(w, h) |->
            IF p \in Z THEN 0 ELSE IF p \in R THEN lv ELSE BackgroundDepth]
            : lv \in DepthLevels \ {BackgroundDepth}}
        : R \in SubsetsUpTo(Grid(w, h) \ Z, MaxRaised)}
        : Z \in SubsetsUpTo(Grid(w, h), MaxZeros)}

\* a 4x3 capture with one 2x2 block of pixels at a level of BlockLevels, at
\* every position of the block, on a background of BackgroundDepth
BlockShape == <<4, 3>>
BlockLevels == {14, 19}
BlockFrames ==
    {[p \in Grid(BlockShape[1], BlockShape[2]) |->
        IF p[1] \in b[1] .. b[1] + 1 /\ p[2] \in b[2] .. b[2] + 1
        THEN lv ELSE BackgroundDepth]
        : b \in Grid(BlockShape[1] - 1, BlockShape[2] - 1),
          lv \in BlockLevels}

\* <<shape, depth array>>: the frames of the given shapes, and BlockFrames
Captures(shapes) ==
    UNION {{<<s, f>> : f \in Frames(s[1], s[2])} : s \in shapes}
    \cup {<<BlockShape, f>> : f \in BlockFrames}

Init ==
    /\ \E c \in Captures(Shapes) :
        /\ width = c[1][1]
        /\ height = c[1][2]
        /\ depthmap_arr = c[2]
    /\ device_pose \in Poses
    /\ floor \in FloorEstimates
    /\ header = None
    /\ data = None
    /\ arr_arg = depthmap_arr
    /\ depth_scale = 1
    /\ max_confidence = 7
    /\ depthmap_arr_smooth = smoothen_depthmap_array(depthmap_arr, width, height)
    /\ confidence_arr = None
    /\ floor_mask = detect_floor(depthmap_arr_smooth, device_pose, width, height, floor)
    /\ mask = floor_mask
    /\ x = 0
    /\ y = 0
    /\ stack = <<>>
    /\ aabb = <<>>
    /\ current_id = -1
    /\ segments = <<>>
    /\ fill_ids = <<>>
    /\ child_mask = None
    /\ selection = {}
    /\ pc = "scan"

Next == Seed \/ Pop \/ EndFill \/ Return \/ SegmentChild

Spec == Init /\ [][Next]_vars

\* The loops of detect_objects and segment_child keep running: a step that
\* can be taken is taken.
SpecLive == Init /\ [][Next]_vars /\ WF_vars(Next)

(***************************************************************************)
(* get_floor_level.  cond selects by the normal alone; the mask built at   *)
(* lines 394-396 is not used.  np.median of the selected world-space y is  *)
(* the middle value, or the mean of the two middle values; the model holds *)
(* twice the median, times PointScale, and None for the NaN of an empty    *)
(* selection.                                                              *)
(***************************************************************************)
\* line 400
\* (mutation: the selection of detect_floor(0), with the height test)
IsSelected_AsDetectFloor(smooth, pose, w, h, p) ==
    NormalIsUp(smooth, pose, w, h, p) /\ IsNearFloor(smooth, pose, w, h, 0, p)
IsSelected(smooth, pose, w, h, p) == NormalIsUp(smooth, pose, w, h, p)

\* the k-th smallest of the values v[p], p in S (equal values in scan order)
Ranked(S, v, h, k) ==
    CHOOSE p \in S :
        Cardinality({q \in S :
                        \/ v[q] < v[p]
                        \/ (v[q] = v[p] /\ ScanKey(q, h) < ScanKey(p, h))})
            = k - 1

Median2(S, v, h) ==
    LET n == Cardinality(S)
    IN  IF n = 0 THEN None
        ELSE IF n % 2 = 1 THEN 2 * v[Ranked(S, v, h, (n + 1) \div 2)]
        ELSE v[Ranked(S, v, h, n \div 2)] + v[Ranked(S, v, h, n \div 2 + 1)]

\* points_3d_arr[1, :, :]
WorldY(smooth, pose, w, h) ==
    [p \in Grid(w, h) |-> convert_2d_to_3d_oriented(smooth, pose, w, h, p)[2]]

get_floor_level ==
    /\ pc = "query"
    /\ selection' = {p \in Grid(width, height) :
            IsSelected(depthmap_arr_smooth, device_pose, width, height, p)}
    /\ floor' = Median2(selection',
                        WorldY(depthmap_arr_smooth, device_pose, width, height),
                        height)
    /\ pc' = "level"
    /\ UNCHANGED <<ctor_vars, obj_vars, floor_mask, mask, x, y, stack, aabb,
                   current_id, segments, fill_ids, child_mask>>

\* the Depthmaps of Init, before the floor level is known
InitFloor ==
    /\ \E c \in Captures(Shapes) :
        /\ width = c[1][1]
        /\ height = c[1][2]
        /\ depthmap_arr = c[2]
    /\ device_pose \in Poses
    /\ floor = None
    /\ header = None
    /\ data = None
    /\ arr_arg = depthmap_arr
    /\ depth_scale = 1
    /\ max_confidence = 7
    /\ depthmap_arr_smooth = smoothen_depthmap_array(depthmap_arr, width, height)
    /\ confidence_arr = None
    /\ floor_mask = None
    /\ mask = None
    /\ x = 0
    /\ y = 0
    /\ stack = <<>>
    /\ aabb = <<>>
    /\ current_id = -1
    /\ segments = <<>>
    /\ fill_ids = <<>>
    /\ child_mask = None
    /\ selection = {}
    /\ pc = "query"

NextFloor == get_floor_level

SpecFloor == InitFloor /\ [][NextFloor]_vars

(***************************************************************************)
(* Depthmap.__init__ and the decoding of the raw buffer.  bytes are a      *)
(* sequence of numbers 0..255; Python indexes them from 0, TLA+ from 1.    *)
(***************************************************************************)
Readable(bytes, i) == i < Len(bytes)
ByteAt(bytes, i) == bytes[i + 1]

Offset(w, tx, ty) == (ty * w + tx) * 3

\* line 438
\* (mutation: the last column and row excluded as well)
IsBorder_Symmetric(w, h, tx, ty) == tx < 1 \/ ty < 1 \/ tx >= w - 1 \/ ty >= h - 1
IsBorder(w, h, tx, ty) == tx < 1 \/ ty < 1 \/ tx >= w \/ ty >= h

\* lines 440-441: data[offset] << 8, plus data[offset + 1]
RawDepth(bytes, w, tx, ty) ==
    ByteAt(bytes, Offset(w, tx, ty)) * 256 + ByteAt(bytes, Offset(w, tx, ty) + 1)

_parse_depth(bytes, w, h, scale, tx, ty) ==
    IF IsBorder(w, h, tx, ty) THEN 0 ELSE RawDepth(bytes, w, tx, ty) * scale

_parse_depth_data(bytes, w, h, scale) ==
    [p \in Grid(w, h) |-> _parse_depth(bytes, w, h, scale, p[1], p[2])]

\* reading a byte past the end of the buffer raises IndexError
ParseDepthRaises(bytes, w, h) ==
    \E p \in Grid(w, h) :
        /\ ~IsBorder(w, h, p[1], p[2])
        /\ ~Readable(bytes, Offset(w, p[1], p[2]) + 1)

_parse_confidence_data(bytes, w, h, maxc) ==
    [p \in Grid(w, h) |-> <<ByteAt(bytes, Offset(w, p[1], p[2]) + 2), maxc>>]

\* line 427: reading a byte past the end of the buffer raises IndexError, and
\* dividing a byte by a max_confidence of 0 raises ZeroDivisionError
ParseConfidenceRaises(bytes, w, h, maxc) ==
    \E p \in Grid(w, h) :
        ~Readable(bytes, Offset(w, p[1], p[2]) + 2) \/ maxc = 0

\* `if data`: None and b'' are both false
Truthy(d) == d # None /\ Len(d[1]) > 0

\* line 112: np.array(device_pose).reshape(4, 4)
ReshapeRaises(pose) == Len(pose) # 16

\* line 121: `... if data else None`
\* (mutation: the confidence is never parsed)
ParsesConfidence_Never(d) == FALSE
ParsesConfidence(d) == Truthy(d)

\* line 115: assert depthmap_arr is None or data is None
\* (mutation: no assertion)
AssertOneSource_Off(d, arr) == TRUE
AssertOneSource(d, arr) == arr = None \/ d = None

\* line 119: smoothen_depthmap_array(None) raises inside ndimage.convolve
SmoothRaises(d, arr) == ~Truthy(d) /\ arr = None

\* __init__ raises for these arguments
InitRaises(w, h, d, arr, maxc, pose) ==
    \/ ReshapeRaises(pose)
    \/ ~AssertOneSource(d, arr)
    \/ Truthy(d) /\ ParseDepthRaises(d[1], w, h)
    \/ SmoothRaises(d, arr)
    \/ ParsesConfidence(d) /\ ParseConfidenceRaises(d[1], w, h, maxc)

ConstructRaises ==
    InitRaises(width, height, data, arr_arg, max_confidence, device_pose)

Construct ==
    /\ pc = "new"
    /\ IF ConstructRaises
       THEN /\ pc' = "error"
            /\ UNCHANGED obj_vars
       ELSE /\ pc' = "built"
            /\ depthmap_arr' =
                  IF Truthy(data)
                  THEN _parse_depth_data(data[1], width, height, depth_scale)
                  ELSE arr_arg
            /\ depthmap_arr_smooth' =
                  smoothen_depthmap_array(depthmap_arr', width, height)
            /\ confidence_arr' =
                  IF ParsesConfidence(data)
                  THEN _parse_confidence_data(data[1], width, height, max_confidence)
                  ELSE None
    /\ UNCHANGED <<ctor_vars, fill_vars>>

(***************************************************************************)
(* The constructor calls checked: every buffer made of one record of       *)
(* PixelRecords per pixel, whole, cut short by up to MaxMissing bytes or   *)
(* followed by up to MaxSurplus bytes; the empty buffer; no buffer; with   *)
(* or without a pre-built array (uniform, or with one nearer pixel); with  *)
(* a pose or with None for it; with a max_confidence of 7 or of 0.         *)
(***************************************************************************)
MaxMissing == 3
MaxSurplus == 1
CtorShapes == {<<2, 2>>, <<3, 2>>}
PixelRecords == { <<0, 0, 0>>, <<1, 4, 7>> }
DepthScales == {1, 2}
\* max_confidence: the 7.0 of the captures, and 0.0
MaxConfidences == {7, 0}

RECURSIVE Flatten(_, _, _)
Flatten(recs, n, k) ==
    IF k >= n THEN <<>> ELSE recs[k] \o Flatten(recs, n, k + 1)

RECURSIVE Zeros(_)
Zeros(n) == IF n = 0 THEN <<>> ELSE <<0>> \o Zeros(n - 1)

Buffers(w, h) ==
    LET full == {Flatten(recs, w * h, 0) : recs \in [0 .. (w * h - 1) -> PixelRecords]}
    IN  UNION {
          {SubSeq(b, 1, Len(b) - m) : m \in 0 .. MaxMissing}
          \cup {b \o Zeros(e) : e \in 1 .. MaxSurplus}
          : b \in full} \cup {<<>>}

\* the uniform array, and the arrays with one pixel at a nearer level
Arrays(w, h) ==
    {[p \in Grid(w, h) |-> BackgroundDepth]}
    \cup {[p \in Grid(w, h) |-> IF p = r THEN lv ELSE BackgroundDepth]
            : r \in Grid(w, h), lv \in BlockLevels}

InitCtor ==
    /\ \E s \in CtorShapes :
        /\ width = s[1]
        /\ height = s[2]
        /\ data \in {<<b>> : b \in Buffers(s[1], s[2])} \cup {None}
        /\ arr_arg \in Arrays(s[1], s[2]) \cup {None}
    /\ depth_scale \in DepthScales
    /\ max_confidence \in MaxConfidences
    /\ device_pose \in {IDENTITY_MATRIX_4D, None}
    /\ header = None
    /\ depthmap_arr = None
    /\ depthmap_arr_smooth = None
    /\ confidence_arr = None
    /\ floor = 0
    /\ floor_mask = None
    /\ mask = None
    /\ x = 0
    /\ y = 0
    /\ stack = <<>>
    /\ aabb = <<>>
    /\ current_id = -1
    /\ segments = <<>>
    /\ fill_ids = <<>>
    /\ child_mask = None
    /\ selection = {}
    /\ pc = "new"

NextCtor == Construct

SpecCtor == InitCtor /\ [][NextCtor]_vars

(***************************************************************************)
(* The two factories.  The header line "WxH_scale_maxconf[_pose fields]"   *)
(* split at '_' is held as the sequence of its tokens, the first being     *)
(* <<W, H>>.  The RGB image is left out (rgb_fname empty, rgb_arr None)    *)
(* and parse_calibration returns `intrinsics`.                             *)
(***************************************************************************)
\* depthmap_utils.py (not among the sources): the pose, as a list of 16, of
\* a position (x, y, z) and a rotation quaternion (x, y, z, w)
matrix_calculate(position, rotation) ==
    LET qx == rotation[1]
        qy == rotation[2]
        qz == rotation[3]
        qw == rotation[4]
    IN  <<1 - 2 * (qy * qy + qz * qz), 2 * (qx * qy + qz * qw),
          2 * (qx * qz - qy * qw), 0,
          2 * (qx * qy - qz * qw), 1 - 2 * (qx * qx + qz * qz),
          2 * (qy * qz + qx * qw), 0,
          2 * (qx * qz + qy * qw), 2 * (qy * qz - qx * qw),
          1 - 2 * (qx * qx + qy * qy), 0,
          position[1], position[2], position[3], 1>>

\* line 145: a header of 10 tokens or more carries the pose
HasPose(hdr) == Len(hdr) >= 10

\* lines 145-150
HeaderPose(hdr) ==
    IF HasPose(hdr)
    THEN matrix_calculate(<<hdr[8], hdr[9], hdr[10]>>,
                          <<hdr[4], hdr[5], hdr[6], hdr[7]>>)
    ELSE IDENTITY_MATRIX_4D

\* lines 140-144: header[1] or header[2] of a shorter header raises IndexError
HeaderRaises(hdr) == Len(hdr) < 3

\* the shape of an array held as a function on Grid(w, h)
Shape(arr) ==
    <<1 + (CHOOSE i \in {p[1] : p \in DOMAIN arr} :
                \A p \in DOMAIN arr : p[1] <= i),
      1 + (CHOOSE j \in {p[2] : p \in DOMAIN arr} :
                \A p \in DOMAIN arr : p[2] <= j)>>

\* line 188: depth_scale = 0.001 (metres per raw unit), as the fraction
\* <<numerator, denominator>> of a depth unit
ARRAY_DEPTH_SCALE == <<1, 50>>

\* the object __init__ leaves behind, or the exception
Built(w, h, d, arr, scale, maxc, pose) ==
    IF InitRaises(w, h, d, arr, maxc, pose)
    THEN /\ pc' = "error"
         /\ UNCHANGED obj_vars
    ELSE /\ pc' = "built"
         /\ depthmap_arr' =
               IF Truthy(d) THEN _parse_depth_data(d[1], w, h, scale) ELSE arr
         /\ depthmap_arr_smooth' = smoothen_depthmap_array(depthmap_arr', w, h)
         /\ confidence_arr' =
               IF ParsesConfidence(d)
               THEN _parse_confidence_data(d[1], w, h, maxc)
               ELSE None

create_from_zip ==
    /\ pc = "zip"
    /\ IF HeaderRaises(header)
       THEN /\ pc' = "error"
            /\ UNCHANGED <<width, height, depth_scale, max_confidence,
                           device_pose, obj_vars>>
       ELSE /\ width' = header[1][1]
            /\ height' = header[1][2]
            /\ depth_scale' = header[2]
            /\ max_confidence' = header[3]
            /\ device_pose' = HeaderPose(header)
            /\ Built(width', height', data, None, depth_scale',
                     max_confidence', device_pose')
    /\ UNCHANGED <<header, data, arr_arg, fill_vars>>

create_from_array ==
    /\ pc = "array"
    /\ height' = Shape(arr_arg)[1]
    /\ width' = Shape(arr_arg)[2]
    /\ depth_scale' = ARRAY_DEPTH_SCALE
    /\ max_confidence' = 7
    /\ device_pose' = None
    /\ Built(width', height', None, arr_arg, depth_scale', max_confidence',
             device_pose')
    /\ UNCHANGED <<header, data, arr_arg, fill_vars>>

(***************************************************************************)
(* The factory calls checked: a header of two tokens, of the three         *)
(* mandatory ones, and of the three followed by each of PoseFields, with   *)
(* every body of Buffers; every array of Frames.                           *)
(***************************************************************************)
PoseFields ==
    { <<>>,
      <<0, 0, 0, 1, 0, 0>>,
      <<0, 0, 0, 1, 0, 0, 0>>,
      <<1, 0, 0, 0, 0, 0, 1>> }

Headers ==
    {<<s, sc, mc>> \o f : s \in CtorShapes, sc \in DepthScales,
                           mc \in MaxConfidences, f \in PoseFields}
    \cup {<<s, 1>> : s \in CtorShapes}

InitFactory ==
    /\ \/ /\ pc = "zip"
          /\ header \in Headers
          /\ data \in {<<b>> : b \in Buffers(header[1][1], header[1][2])}
          /\ arr_arg = None
       \/ /\ pc = "array"
          /\ header = None
          /\ data = None
          /\ arr_arg \in UNION {Arrays(s[1], s[2]) : s \in CtorShapes}
    /\ width = 0
    /\ height = 0
    /\ depth_scale = 0
    /\ max_confidence = 0
    /\ device_pose = None
    /\ depthmap_arr = None
    /\ depthmap_arr_smooth = None
    /\ confidence_arr = None
    /\ floor = 0
    /\ floor_mask = None
    /\ mask = None
    /\ x = 0
    /\ y = 0
    /\ stack = <<>>
    /\ aabb = <<>>
    /\ current_id = -1
    /\ segments = <<>>
    /\ fill_ids = <<>>
    /\ child_mask = None
    /\ selection = {}

NextFactory == create_from_zip \/ create_from_array

SpecFactory == InitFactory /\ [][NextFactory]_vars

(***************************************************************************)
(*                      Properties of detect_objects                       *)
(***************************************************************************)
Pixels == Grid(width, height)
IsSegmentId(v) == v < 0

\* C1: every pixel that detect_floor labeled FLOOR or INVALID still carries
\* exactly that label in the mask detect_objects returns.
C1_FloorAndInvalidKept ==
    pc = "returned" =>
        \A p \in Pixels :
            floor_mask[p] \in {MASK_FLOOR, MASK_INVALID} => mask[p] = floor_mask[p]

\* C2: once a pixel carries a segment id, no later step of the same fill and
\* no later fill changes its label.
C2_SegmentIdNeverChanges ==
    [][\A p \in DOMAIN mask : IsSegmentId(mask[p]) => mask'[p] = mask[p]]_vars

\* The pixels detect_floor left unlabeled, and their extent
Region == {p \in Pixels : floor_mask[p] = 0}
Extent(R) ==
    <<CHOOSE a \in {p[1] : p \in R} : \A p \in R : a <= p[1],
      CHOOSE b \in {p[2] : p \in R} : \A p \in R : b <= p[2],
      CHOOSE c \in {p[1] : p \in R} : \A p \in R : c >= p[1],
      CHOOSE d \in {p[2] : p \in R} : \A p \in R : d >= p[2]>>

Adjacent(p, q) == Abs(p[1] - q[1]) + Abs(p[2] - q[2]) = 1

RECURSIVE Reach(_, _)
Reach(R, S) ==
    LET T == S \cup {q \in R : \E p \in S : Adjacent(p, q)}
    IN  IF T = S THEN S ELSE Reach(R, T)

IsConnectedRegion(R) == R # {} /\ Reach(R, {CHOOSE p \in R : TRUE}) = R

\* One 4-connected region of uniform depth, nearer than every other measured
\* pixel, whose extent is above width/4 as detect_objects measures it; every
\* other pixel is FLOOR or INVALID.
SingleRaisedRegion ==
    /\ IsConnectedRegion(Region)
    /\ \A p, q \in Region : depthmap_arr[p] = depthmap_arr[q]
    /\ \A p \in Region : \A q \in Pixels \ Region :
          depthmap_arr[q] > 0 => depthmap_arr[p] < depthmap_arr[q]
    /\ 4 * Max(Extent(Region)[3] - Extent(Region)[1],
               Extent(Region)[4] - Extent(Region)[2]) > width

\* C3: a frame with a single connected raised region of uniform depth and of
\* diameter above width/4, every other pixel floor or invalid, yields exactly
\* one accepted segment, whose bounding box is the region's pixel extent.
C3_SingleRegionOneTightSegment ==
    (pc = "returned" /\ SingleRaisedRegion) =>
        /\ Len(segments) = 1
        /\ segments[1].aabb = Extent(Region)

\* A step that ends a fill, and whether it recorded the fill
EndsFill == pc = "fill" /\ stack = <<>> /\ pc' = "scan"
Recorded == segments' = Append(segments, [id |-> current_id, aabb |-> aabb])

\* C4 (as claimed): a drained fill is recorded iff the larger dimension of its
\* bounding box, counted in pixels spanned (max - min + 1), exceeds width/4.
C4_RecordedIffPixelSpanAboveQuarter ==
    [][EndsFill =>
        (Recorded <=>
            4 * (Max(aabb[3] - aabb[1], aabb[4] - aabb[2]) + 1) > width)]_vars

\* C4 (amended): a drained fill is recorded iff the larger side of its bounding
\* box, measured as max - min (one less than the pixels spanned), exceeds
\* width/4; otherwise the segment list is left as it was.
C4_RecordedIffExtentAboveQuarter ==
    [][EndsFill =>
        /\ Recorded <=> 4 * Max(aabb[3] - aabb[1], aabb[4] - aabb[2]) > width
        /\ ~Recorded => segments' = segments]_vars

\* C4 witness: a fill spanning 2x2 pixels of a width-4 frame has drained and
\* was not recorded.
C4_Witness ==
    /\ pc = "scan" /\ width = 4 /\ Len(fill_ids) > 0
    /\ aabb[3] - aabb[1] = 1 /\ aabb[4] - aabb[2] = 1
    /\ \A p \in Grid(width, height) :
        mask[p] = fill_ids[Len(fill_ids)]
        <=> (p[1] \in aabb[1] .. aabb[3] /\ p[2] \in aabb[2] .. aabb[4])
    /\ \A i \in 1 .. Len(segments) : segments[i].id # fill_ids[Len(fill_ids)]

(***************************************************************************)
(*                      Properties of segment_child                        *)
(***************************************************************************)
\* The four corners of box, by the indices of their coordinates in box
Corners == {<<1, 2>>, <<1, 4>>, <<3, 2>>, <<3, 4>>}

\* Summed squared distance of the corners of box to the point <<c2[1]/2, c2[2]/2>>,
\* times 4
CornerDistance4(box, c2) ==
    SumOver(Corners,
            [c \in Corners |->
                (2 * box[c[1]] - c2[1]) * (2 * box[c[1]] - c2[1])
                + (2 * box[c[2]] - c2[2]) * (2 * box[c[2]] - c2[2])])

\* Segment i is the first of the accepted segments at the least distance to
\* the centre c2/2, and child_mask is mask with exactly its id made CHILD
ChildIs(i, c2) ==
    /\ \A j \in 1 .. Len(segments) :
          /\ CornerDistance4(segments[i].aabb, c2) <= CornerDistance4(segments[j].aabb, c2)
          /\ j < i => CornerDistance4(segments[i].aabb, c2) < CornerDistance4(segments[j].aabb, c2)
    /\ \A p \in Pixels :
          child_mask[p] = IF mask[p] = segments[i].id THEN MASK_CHILD ELSE mask[p]

\* C5 (as claimed): the accepted segment whose bounding-box corners are nearest
\* the image centre (width/2, height/2), the first discovered among equals, is
\* the one relabeled CHILD; every other pixel keeps its label.
C5_ChildNearestTrueCentre ==
    (pc = "child" /\ Len(segments) > 0) =>
        \E i \in 1 .. Len(segments) : ChildIs(i, <<width, height>>)

\* C5 (amended): the same, the centre being (int(width/2), int(height/2)),
\* the halves rounded down.
C5_ChildNearestRoundedCentre ==
    (pc = "child" /\ Len(segments) > 0) =>
        \E i \in 1 .. Len(segments) :
            ChildIs(i, <<2 * (width \div 2), 2 * (height \div 2)>>)

\* C5 witness: segment_child returned with two accepted segments at the same
\* distance to the rounded centre, and the first of them is CHILD
C5_Witness ==
    /\ pc = "child" /\ Len(segments) >= 2
    /\ \E i, j \in 1 .. Len(segments) :
          /\ i < j
          /\ ChildIs(i, <<2 * (width \div 2), 2 * (height \div 2)>>)
          /\ CornerDistance4(segments[i].aabb, <<2 * (width \div 2), 2 * (height \div 2)>>)
               = CornerDistance4(segments[j].aabb, <<2 * (width \div 2), 2 * (height \div 2)>>)
          /\ \E p \in Pixels : child_mask[p] = MASK_CHILD

\* C6: when detect_objects accepted no segment, segment_child relabels nothing:
\* its mask is detect_objects' mask and no pixel is CHILD.
C6_NoSegmentNoChild ==
    (pc = "child" /\ segments = <<>>) =>
        /\ child_mask = mask
        /\ \A p \in Pixels : child_mask[p] # MASK_CHILD

\* C7: the k-th fill started labels with -k, whether or not earlier fills were
\* accepted; the ids of the segment list are negative, pairwise distinct and
\* strictly decreasing in list order.
C7_IdsCountDown ==
    /\ \A k \in 1 .. Len(fill_ids) : fill_ids[k] = -k
    /\ \A i \in 1 .. Len(segments) :
          /\ segments[i].id < 0
          /\ \E k \in 1 .. Len(fill_ids) : fill_ids[k] = segments[i].id
          /\ \A j \in 1 .. Len(segments) : i < j => segments[j].id < segments[i].id

\* C7 witness: detect_objects returned an accepted segment that was started
\* after a rejected fill
C7_Witness ==
    /\ pc = "returned" /\ Len(segments) >= 2
    /\ Len(fill_ids) > Len(segments)
    /\ \E i \in 1 .. Len(segments) : segments[i].id < -i

(***************************************************************************)
(*                      Properties of the constructor                      *)
(***************************************************************************)
BodyLength == width * height * 3

\* C8: a pixel with x >= 1 and y >= 1 decodes to
\* (body[(y*width+x)*3] * 256 + body[(y*width+x)*3 + 1]) * depth_scale, the last
\* column and row included; a pixel with x = 0 or y = 0 decodes to 0.
C8_DecodedDepth ==
    (pc = "built" /\ data # None) =>
        \A p \in Pixels :
            depthmap_arr[p] =
                IF p[1] >= 1 /\ p[2] >= 1
                THEN (data[1][(p[2] * width + p[1]) * 3 + 1] * 256
                      + data[1][(p[2] * width + p[1]) * 3 + 2]) * depth_scale
                ELSE 0

\* C8 witness: a buffer was decoded in which a pixel of the first column has
\* nonzero depth bytes and the pixel of the last column and row has a
\* nonzero depth
C8_Witness ==
    /\ pc = "built" /\ data # None
    /\ data[1][(1 * width + 0) * 3 + 2] # 0
    /\ depthmap_arr[<<0, 1>>] = 0
    /\ depthmap_arr[<<width - 1, height - 1>>] > 0

\* C9 (as claimed): a body whose length is not width*height*3, shorter or
\* longer, never yields a Depthmap.
C9_WrongLengthNeverBuilt ==
    (data # None /\ Len(data[1]) # BodyLength) => pc # "built"

\* C9 (amended): a body shorter than width*height*3 bytes makes the constructor
\* fail, and no Depthmap is produced; a longer body is not rejected for its
\* length: the bytes past width*height*3 are never read, and with no other
\* cause of failure (no array as well, a pose, a nonzero max_confidence) the
\* Depthmap is built.
C9_ShortBodyFails ==
    /\ (pc # "new" /\ data # None /\ Len(data[1]) < BodyLength) =>
          pc = "error" /\ depthmap_arr = None
    /\ (pc # "new" /\ data # None /\ Len(data[1]) > BodyLength
            /\ arr_arg = None /\ device_pose # None /\ max_confidence # 0) =>
          pc = "built"

\* C9 witness: the constructor failed on a buffer that lacks only the last
\* byte, with no other cause of failure
C9_Witness ==
    /\ pc = "error" /\ data # None /\ Len(data[1]) = BodyLength - 1
    /\ arr_arg = None /\ device_pose # None /\ max_confidence # 0

\* C10: the constructor succeeds only with exactly one of data and
\* depthmap_arr supplied; with both, or with neither, it ends in an error and
\* there is no Depthmap.
C10_ExactlyOneSource ==
    /\ pc = "built" => (data = None) # (arr_arg = None)
    /\ (pc # "new" /\ (data = None) = (arr_arg = None)) =>
          pc = "error" /\ depthmap_arr = None

\* C10 witness: the constructor failed on a whole buffer given together with
\* an array, the pose being fine
C10_Witness ==
    /\ pc = "error" /\ data # None /\ arr_arg # None
    /\ Len(data[1]) = BodyLength /\ device_pose # None

(***************************************************************************)
(*                     Properties of the smoothing                         *)
(***************************************************************************)
\* the 4-neighbours of p that lie inside the array
InBoundsNeighbours(p, w, h) ==
    {q \in Grid(w, h) : Abs(q[1] - p[1]) + Abs(q[2] - p[2]) = 1}

HasZeroNear(arr, p, w, h) ==
    arr[p] = 0 \/ \E q \in InBoundsNeighbours(p, w, h) : arr[q] = 0

\* C11: after construction, a pixel whose depth is 0, or one of whose
\* in-bounds 4-neighbours has depth 0 in the unsmoothed array, is exactly 0
\* in depthmap_arr_smooth.
C11_ZeroNearSmoothsToZero ==
    pc = "built" =>
        \A p \in Grid(width, height) :
            HasZeroNear(depthmap_arr, p, width, height)
                => depthmap_arr_smooth[p] = 0

\* C11 witness: a Depthmap was built in which a pixel with a measured depth
\* has a neighbour without one, and is 0 after smoothing.
C11_Witness ==
    /\ pc = "built"
    /\ \E p \in Grid(width, height) :
        /\ depthmap_arr[p] > 0
        /\ \E q \in InBoundsNeighbours(p, width, height) : depthmap_arr[q] = 0
        /\ depthmap_arr_smooth[p] = 0

(***************************************************************************)
(*                      Properties of the factories                        *)
(***************************************************************************)
\* the call carried no pose: a pre-built array, or a well-formed capture
\* whose header has the three mandatory fields only
WithoutPose ==
    \/ arr_arg # None
    \/ /\ header # None
       /\ Len(header) = 3
       /\ Len(data[1]) = header[1][1] * header[1][2] * 3

\* C12: a Depthmap built without pose information, from a capture header of
\* the three mandatory fields or from a pre-built array, is built
\* successfully and its device pose is the identity.
C12_NoPoseBuildsIdentity ==
    (pc \in {"built", "error"} /\ WithoutPose)
        => (pc = "built" /\ device_pose = IDENTITY_MATRIX_4D)

(***************************************************************************)
(*                    Properties of the continuity test                    *)
(***************************************************************************)
\* The maximal 4-connected set of pixels at the depth of p that contains p
Block(p) == Reach({q \in Pixels : depthmap_arr[q] = depthmap_arr[p]}, {p})

\* B is measured, and every pixel 4-adjacent to it is without a measurement
\* or farther by 0.1 m or more
IsRaisedBlock(B) ==
    \A p \in B : \A q \in Pixels \ B :
        /\ depthmap_arr[p] > 0
        /\ Adjacent(p, q) =>
              \/ depthmap_arr[q] = 0
              \/ depthmap_arr[q] - depthmap_arr[p] >= ContinuityTolerance

\* C13: a uniform raised block whose raw depth differs by 0.1 m or more from
\* every pixel 4-adjacent to it never shares a segment id with a pixel
\* outside the block.
C13_RaisedBlockKeepsItsId ==
    \A p \in Pixels :
        (IsSegmentId(mask[p]) /\ IsRaisedBlock(Block(p)))
            => \A q \in Pixels \ Block(p) : mask[q] # mask[p]

(***************************************************************************)
(*                     Properties of get_floor_level                       *)
(***************************************************************************)
\* the pixels detect_floor labels FLOOR for the floor estimate flr
FloorPixels(flr) ==
    {p \in Pixels :
        detect_floor(depthmap_arr_smooth, device_pose, width, height, flr)[p]
            = MASK_FLOOR}

\* the pixels that pass the normal test |normal_y| > 0.5
NormalUpPixels ==
    {p \in Pixels :
        LET n == calculate_normalmap_array(depthmap_arr_smooth, device_pose,
                                           width, height, p)
        IN  2 * Abs(n[2]) > Abs(n[1]) + Abs(n[2]) + Abs(n[3])}

\* p fails the height test (point_y - 0) < 0.1
FailsHeightTest(p) ==
    WorldY(depthmap_arr_smooth, device_pose, width, height)[p]
        >= FloorHeightTolerance * PointScale(width, height)

\* C14 (as claimed): get_floor_level takes its median over exactly the
\* pixels detect_floor classifies as FLOOR for a floor estimate of 0; a pixel
\* failing the height test never contributes.
C14_MedianOverFloorOfZero ==
    pc = "level" =>
        /\ selection = FloorPixels(0)
        /\ \A p \in selection : ~FailsHeightTest(p)

\* C14 (amended): get_floor_level takes its median over exactly the pixels
\* that pass the normal test |normal_y| > 0.5, whatever their height, and
\* returns the median of their world-space y.
C14_MedianOverNormalUp ==
    pc = "level" =>
        /\ selection = NormalUpPixels
        /\ floor = Median2(NormalUpPixels,
                           WorldY(depthmap_arr_smooth, device_pose, width, height),
                           height)

\* C14 witness: a floor level was computed to which a pixel failing the
\* height test contributed.
C14_Witness ==
    /\ pc = "level"
    /\ \E p \in selection : FailsHeightTest(p)
    /\ selection # FloorPixels(0)

\* p lies on the outer edge of the array
IsEdge(p, w, h) == p[1] = 0 \/ p[1] = w - 1 \/ p[2] = 0 \/ p[2] = h - 1

\* the number of 4-neighbours of p outside the array
OutOfBounds(p, w, h) == 4 - Cardinality(InBoundsNeighbours(p, w, h))

\* C15 (as claimed): a pixel on the outer edge of the array is 0 in
\* depthmap_arr_smooth, even when the pixel and all of its in-bounds
\* 4-neighbours have nonzero depth.
C15_EdgeSmoothsToZero ==
    pc = "built" =>
        \A p \in Grid(width, height) :
            IsEdge(p, width, height) => depthmap_arr_smooth[p] = 0

\* C15 (amended): a neighbour outside the array counts as a copy of the edge
\* pixel itself: an edge pixel that has nonzero depth, as have all of its
\* in-bounds 4-neighbours, is nonzero in depthmap_arr_smooth, namely the mean
\* (held times 5) of its own depth, its in-bounds neighbours' depths, and its
\* own depth once more for each neighbour out of bounds.
C15_EdgeSmoothsToReflectedMean ==
    pc = "built" =>
        \A p \in Grid(width, height) :
            (IsEdge(p, width, height)
                /\ ~HasZeroNear(depthmap_arr, p, width, height))
            => /\ depthmap_arr_smooth[p] > 0
               /\ depthmap_arr_smooth[p] =
                     (1 + OutOfBounds(p, width, height)) * depthmap_arr[p]
                     + SumOver(InBoundsNeighbours(p, width, height),
                               [q \in InBoundsNeighbours(p, width, height) |->
                                   depthmap_arr[q]])

\* C15 witness: a Depthmap was built in which an edge pixel, with nonzero
\* depth as all its in-bounds neighbours and a neighbour at another depth, is
\* nonzero after smoothing.
C15_Witness ==
    /\ pc = "built"
    /\ \E p \in Grid(width, height) :
        /\ IsEdge(p, width, height)
        /\ ~HasZeroNear(depthmap_arr, p, width, height)
        /\ \E q \in InBoundsNeighbours(p, width, height) :
              depthmap_arr[q] # depthmap_arr[p]
        /\ depthmap_arr_smooth[p] > 0

(***************************************************************************)
(*                  Properties of the flood fill's reads                   *)
(***************************************************************************)
\* the pixel the next pass of the while loop pops
Top == stack[Len(stack)]

\* C16: detect_objects never reads a pixel outside the grid: whenever it
\* inspects the neighbours of a popped pixel, the pixel and each of its four
\* neighbour coordinates lie within 0 <= x < width and 0 <= y < height, so
\* no read raises an index error and none wraps to the opposite edge.
C16_ReadsStayInGrid ==
    [][(pc = "fill" /\ stack # <<>>) =>
        /\ pc' # "error"
        /\ Top \in Pixels
        /\ mask[PyPixel(Top, width, height)] = 0 =>
              \A i \in 1 .. Len(dirs) : Neighbour(Top, i) \in Pixels]_vars

(***************************************************************************)
(*                   Termination of detect_objects                         *)
(***************************************************************************)
\* the pass of the while loop that pops Top adds its neighbours to the stack
Expands ==
    /\ pc = "fill"
    /\ stack # <<>>
    /\ mask[PyPixel(Top, width, height)] = 0

\* C17: detect_objects terminates on every frame on which no index error
\* occurs.  A pixel has its neighbours pushed at most once over the whole
\* run (only while it is unlabeled, and that pass labels it for good),
\* although it may be on the stack several times; so every fill's stack
\* drains, and the scan reaches the last pixel and returns.
C17_DetectObjectsTerminates ==
    /\ [][/\ (Expands /\ pc' # "error")
              => mask'[PyPixel(Top, width, height)] # 0
          /\ \A p \in DOMAIN mask : mask[p] # 0 => mask'[p] # 0]_vars
    /\ <>(pc = "error" \/ (pc = "returned" /\ x = width /\ stack = <<>>))

\* C17 witness: detect_objects has returned after at least two fills, one
\* of which covered several pixels.
C17_Witness ==
    /\ pc = "returned"
    /\ Len(fill_ids) >= 2
    /\ \E p, q \in Pixels : p # q /\ IsSegmentId(mask[p]) /\ mask[p] = mask[q]

====
